---- MODULE Spec2Model ----
(***************************************************************************)
(* Model of two components of the repository:                              *)
(*   - callGateway: one connection, one request, a single settlement      *)
(*     guarded by the flags settled / ignoreClose and a timeout timer;     *)
(*   - deliverOutboundPayloads: sequential delivery of normalized          *)
(*     payloads as text chunks or media items, with best-effort mode.      *)
(* Each handler of the code is one action; a handler runs to completion   *)
(* (one JavaScript task), an await is the boundary between two actions.    *)
(***************************************************************************)
EXTENDS Integers, Sequences, FiniteSets, TLC

VARIABLES
    \* ---- callGateway (closure state of the Promise executor)
    timeoutMs,      \* opts.timeoutMs ?? 10_000
    settled,        \* let settled
    ignoreClose,    \* let ignoreClose
    timer,          \* the setTimeout handle: "armed", "fired" or "cleared"
    outcome,        \* the state of the returned promise
    gwLog,          \* effects of the call, in program order
    \* ---- the connection primitive (GatewayClient), seen through its contract
    helloAcked,     \* the handshake acknowledgement was delivered
    request,        \* "none", "outstanding" or "completed"
    closeEvents,    \* number of close events delivered to onClose
    lastEvent,      \* the trigger handled by the last step
    \* ---- deliverOutboundPayloads
    provider, bestEffort, textLimit, payloads,
    cfg,            \* params.cfg: the media ceilings of the configuration
    pc,             \* position of the async function
    payloadIdx,     \* index of the payload of the for loop
    itemIdx,        \* index of the next chunk / media item of the payload
    inflight,       \* send calls whose promise is pending
    results,        \* const results
    sendLog,        \* send calls issued, in order
    succeeded,      \* results of the sends that resolved, in order
    resultOwner,    \* payload index of each entry of results
    failedAt,       \* payload index -> item index of the failing send
    callbacks,      \* onPayload / onError invocations, in order
    returned,       \* the settlement of the call
    lastSend,       \* the settlement of the send promise awaited last
    \* ---- callGateway, resolution of the connection target
    resolveIn,      \* opts, loadConfig(), process.env, the tailnet address
    target          \* url, token, password and diagnostics of the call

gwVars == <<timeoutMs, settled, ignoreClose, timer, outcome, gwLog,
            helloAcked, request, closeEvents, lastEvent>>
dlvVars == <<provider, bestEffort, textLimit, payloads, pc, payloadIdx,
             itemIdx, inflight, results, sendLog, succeeded, resultOwner,
             failedAt, callbacks, returned, cfg, lastSend>>
rsvVars == <<resolveIn, target>>
vars == <<timeoutMs, settled, ignoreClose, timer, outcome, gwLog,
          helloAcked, request, closeEvents, lastEvent,
          provider, bestEffort, textLimit, payloads, pc, payloadIdx,
          itemIdx, inflight, results, sendLog, succeeded, resultOwner,
          failedAt, callbacks, returned, cfg, lastSend,
          resolveIn, target>>

\* The value of an absent error argument (records compare with records).
Undefined == [undefined |-> TRUE]

\* textLimit === undefined
NoTextLimit == 0 - 1

----------------------------------------------------------------------------
(* Bounds and input domains                                                *)

MaxCloseEvents == 2
MaxPayloads == 2
MaxTextLimit == 2

DefaultTimeoutMs == 10000

CloseCodes == {1000, 1006, 1011}
CloseReasons == {<<>>, <<" ">>, <<"b", "y", "e">>}
RequestResults == {"r1", "r2"}
RequestErrors == {[type |-> "request", id |-> "e1"],
                  [type |-> "request", id |-> "e2"]}
CallOptions == {[method |-> "health"],
                [method |-> "health", timeoutMs |-> 500]}

----------------------------------------------------------------------------
(* Strings are sequences of one-character strings.                         *)

RECURSIVE TrimStart(_)
TrimStart(s) ==
    IF s # <<>> /\ Head(s) = " " THEN TrimStart(Tail(s)) ELSE s

RECURSIVE TrimEnd(_)
TrimEnd(s) ==
    IF s # <<>> /\ s[Len(s)] = " "
    THEN TrimEnd(SubSeq(s, 1, Len(s) - 1))
    ELSE s

Trim(s) == TrimEnd(TrimStart(s))

----------------------------------------------------------------------------
(* callGateway                                                             *)

NoCloseReason == <<"n", "o", " ", "c", "l", "o", "s", "e", " ",
                   "r", "e", "a", "s", "o", "n">>

formatCloseErrorNoReason(code, reason) ==
    [type |-> "closed",
     code |-> code,
     hint |-> IF code = 1006 THEN "abnormal closure (no close frame)"
              ELSE IF code = 1000 THEN "normal closure"
              ELSE "",
     reasonText |-> NoCloseReason]

formatCloseError(code, reason) ==
    [type |-> "closed",
     code |-> code,
     hint |-> IF code = 1006 THEN "abnormal closure (no close frame)"
              ELSE IF code = 1000 THEN "normal closure"
              ELSE "",
     reasonText |-> IF Trim(reason) # <<>> THEN Trim(reason) ELSE NoCloseReason]

formatTimeoutError(ms) == [type |-> "timeout", timeoutMs |-> ms]

GwState ==
    [settled |-> settled, ignoreClose |-> ignoreClose, timer |-> timer,
     outcome |-> outcome, gwLog |-> gwLog]

GwSet(g) ==
    /\ settled' = g.settled
    /\ ignoreClose' = g.ignoreClose
    /\ timer' = g.timer
    /\ outcome' = g.outcome
    /\ gwLog' = g.gwLog

\* resolve / reject of the promise: only the first call has an effect on the
\* promise; every call is recorded in the log.
Settle(g, err, value) ==
    LET entry == IF err # Undefined
                 THEN [op |-> "reject", error |-> err]
                 ELSE [op |-> "resolve", value |-> value]
        result == IF err # Undefined
                  THEN [kind |-> "rejected", error |-> err]
                  ELSE [kind |-> "resolved", value |-> value]
    IN  [g EXCEPT !.gwLog = Append(@, entry),
                  !.outcome = IF @.kind = "pending" THEN result ELSE @]

stopUnguarded(g, err, value) ==
    Settle([g EXCEPT !.settled = TRUE,
                     !.timer = IF @ = "armed" THEN "cleared" ELSE @],
           err, value)

stop(g, err, value) ==
    IF g.settled THEN g
    ELSE Settle([g EXCEPT !.settled = TRUE,
                          !.timer = IF @ = "armed" THEN "cleared" ELSE @],
                err, value)

\* client.stop(): the call into the connection primitive, recorded with the
\* value ignoreClose has at the time of the call.
clientStop(g) ==
    [g EXCEPT !.gwLog = Append(@, [op |-> "client.stop",
                                   ignoreClose |-> g.ignoreClose])]

LogOps(log, op) == {i \in DOMAIN log : log[i].op = op}

clientStopped == LogOps(gwLog, "client.stop") # {}

GwInit ==
    /\ \E opts \in CallOptions :
        timeoutMs = IF "timeoutMs" \in DOMAIN opts
                    THEN opts.timeoutMs ELSE DefaultTimeoutMs
    /\ settled = FALSE
    /\ ignoreClose = FALSE
    /\ timer = "armed"
    /\ outcome = [kind |-> "pending"]
    /\ gwLog = <<[op |-> "client.start"]>>
    /\ helloAcked = FALSE
    /\ request = "none"
    /\ closeEvents = 0
    /\ lastEvent = [kind |-> "start"]

\* onHelloOk up to the await: the request is issued.
onHelloOkTwoRequests(g) ==
    [g EXCEPT !.gwLog = @ \o <<[op |-> "client.request"],
                               [op |-> "client.request"]>>]

onHelloOk(g) ==
    [g EXCEPT !.gwLog = Append(@, [op |-> "client.request"])]

\* onHelloOk after the await, the request resolved with result.
onRequestResolved(g, result) ==
    clientStop(stop([g EXCEPT !.ignoreClose = TRUE], Undefined, result))

\* onHelloOk after the await, the request rejected with err.
onRequestRejectedSettleFirst(g, err) ==
    clientStop(stop([g EXCEPT !.ignoreClose = TRUE], err, Undefined))

onRequestRejected(g, err) ==
    stop(clientStop([g EXCEPT !.ignoreClose = TRUE]), err, Undefined)

onCloseUnguarded(g, code, reason) ==
    stop(clientStop([g EXCEPT !.ignoreClose = TRUE]),
         formatCloseError(code, reason), Undefined)

onCloseNoStop(g, code, reason) ==
    IF g.settled \/ g.ignoreClose THEN g
    ELSE stop([g EXCEPT !.ignoreClose = TRUE],
              formatCloseError(code, reason), Undefined)

onClose(g, code, reason) ==
    IF g.settled \/ g.ignoreClose THEN g
    ELSE stop(clientStop([g EXCEPT !.ignoreClose = TRUE]),
              formatCloseError(code, reason), Undefined)

onTimerIdle(g, ms) == g

\* (mutant) the timer callback does not mark the close as intentional.
onTimerNoIgnore(g, ms) ==
    stop(clientStop(g), formatTimeoutError(ms), Undefined)

onTimer(g, ms) ==
    stop(clientStop([g EXCEPT !.ignoreClose = TRUE]),
         formatTimeoutError(ms), Undefined)

\* The handshake acknowledgement is delivered: at most once per connection,
\* and not on a connection whose close was already delivered.
HelloOk ==
    /\ ~helloAcked
    /\ closeEvents = 0
    /\ helloAcked' = TRUE
    /\ request' = "outstanding"
    /\ GwSet(onHelloOk([GwState EXCEPT
                          !.gwLog = Append(@, [op |-> "helloOk"])]))
    /\ lastEvent' = [kind |-> "helloOk"]
    /\ UNCHANGED <<timeoutMs, closeEvents>>
    /\ UNCHANGED <<dlvVars, rsvVars>>

RequestResolves ==
    /\ request = "outstanding"
    /\ \E result \in RequestResults :
        /\ GwSet(onRequestResolved(GwState, result))
        /\ lastEvent' = [kind |-> "resolved", value |-> result]
    /\ request' = "completed"
    /\ UNCHANGED <<timeoutMs, helloAcked, closeEvents>>
    /\ UNCHANGED <<dlvVars, rsvVars>>

RequestRejects ==
    /\ request = "outstanding"
    /\ \E err \in RequestErrors :
        /\ GwSet(onRequestRejected(GwState, err))
        /\ lastEvent' = [kind |-> "rejected", error |-> err]
    /\ request' = "completed"
    /\ UNCHANGED <<timeoutMs, helloAcked, closeEvents>>
    /\ UNCHANGED <<dlvVars, rsvVars>>

Close ==
    /\ closeEvents < MaxCloseEvents
    /\ \E code \in CloseCodes, reason \in CloseReasons :
        /\ GwSet(onClose(GwState, code, reason))
        /\ lastEvent' = [kind |-> "close", code |-> code, reason |-> reason]
    /\ closeEvents' = closeEvents + 1
    /\ UNCHANGED <<timeoutMs, helloAcked, request>>
    /\ UNCHANGED <<dlvVars, rsvVars>>

TimerFires ==
    /\ timer = "armed"
    /\ GwSet(onTimer([GwState EXCEPT !.timer = "fired"], timeoutMs))
    /\ lastEvent' = [kind |-> "timeout"]
    /\ UNCHANGED <<timeoutMs, helloAcked, request, closeEvents>>
    /\ UNCHANGED <<dlvVars, rsvVars>>

GwNext == HelloOk \/ RequestResolves \/ RequestRejects \/ Close \/ TimerFires

----------------------------------------------------------------------------
(* deliverOutboundPayloads                                                 *)

Providers == {"whatsapp", "telegram", "discord", "slack", "signal", "imessage"}

\* Raw reply payloads: a field that is absent is not in the record's domain.
RawPayloads ==
    {[text |-> <<"a", "b", "c">>],
     [text |-> <<" ">>],
     [text |-> <<>>, mediaUrl |-> ""],
     [mediaUrl |-> "u1"],
     [text |-> <<"a", "b">>, mediaUrls |-> <<"u1", "u2">>],
     [text |-> <<"a">>, mediaUrl |-> "u1", mediaUrls |-> <<>>]}

PayloadLists ==
    UNION {[1..n -> RawPayloads] : n \in 0..MaxPayloads}

SendResults == {[messageId |-> "m1"], [messageId |-> "m2"]}
SendErrors == {"fail"}

MB == 1024 * 1024

\* Configured media ceilings in megabytes, per configuration section.
MediaMaxMb == [signal |-> 2, imessage |-> 4, agent |-> 3]

\* Configurations: each of the sections signal, imessage and agent is present
\* with its mediaMaxMb, or absent.
DeliverConfigs ==
    {[k \in K |-> [mediaMaxMb |-> MediaMaxMb[k]]] :
        K \in SUBSET {"signal", "imessage", "agent"}}

resolveSignalMaxBytes(c) ==
    IF "signal" \in DOMAIN c /\ c.signal.mediaMaxMb # 0
    THEN [maxBytes |-> c.signal.mediaMaxMb * MB]
    ELSE IF "agent" \in DOMAIN c /\ c.agent.mediaMaxMb # 0
    THEN [maxBytes |-> c.agent.mediaMaxMb * MB]
    ELSE <<>>

\* (mutant) no fallback to the agent-wide ceiling.
resolveIMessageMaxBytesNoFallback(c) ==
    IF "imessage" \in DOMAIN c /\ c.imessage.mediaMaxMb # 0
    THEN [maxBytes |-> c.imessage.mediaMaxMb * MB]
    ELSE <<>>

resolveIMessageMaxBytes(c) ==
    IF "imessage" \in DOMAIN c /\ c.imessage.mediaMaxMb # 0
    THEN [maxBytes |-> c.imessage.mediaMaxMb * MB]
    ELSE IF "agent" \in DOMAIN c /\ c.agent.mediaMaxMb # 0
    THEN [maxBytes |-> c.agent.mediaMaxMb * MB]
    ELSE <<>>

resolveChunker(p) ==
    IF p = "telegram" THEN "chunkMarkdownText"
    ELSE IF p = "whatsapp" THEN "chunkText"
    ELSE IF p = "signal" THEN "chunkText"
    ELSE IF p = "imessage" THEN "chunkText"
    ELSE "null"

\* chunkText / chunkMarkdownText: consecutive pieces of at most limit
\* characters.
RECURSIVE chunkText(_, _)
chunkText(text, limit) ==
    IF text = <<>> THEN <<>>
    ELSE IF Len(text) <= limit THEN <<text>>
    ELSE <<SubSeq(text, 1, limit)>>
         \o chunkText(SubSeq(text, limit + 1, Len(text)), limit)

normalizeOutboundPayloads(raw) ==
    LET mapped == [i \in DOMAIN raw |->
            [text |-> IF "text" \in DOMAIN raw[i] THEN raw[i].text ELSE <<>>,
             mediaUrls |->
                IF "mediaUrls" \in DOMAIN raw[i] THEN raw[i].mediaUrls
                ELSE IF "mediaUrl" \in DOMAIN raw[i] /\ raw[i].mediaUrl # ""
                     THEN <<raw[i].mediaUrl>>
                     ELSE <<>>]]
        keep(payload) == payload.text # <<>> \/ Len(payload.mediaUrls) > 0
    IN  SelectSeq(mapped, keep)

normalizedPayloads == normalizeOutboundPayloads(payloads)

chunker == resolveChunker(provider)

\* sendTextChunks: the texts of the sends of a payload without media.
textChunks(text) ==
    IF chunker = "null" \/ textLimit = NoTextLimit
    THEN <<text>>
    ELSE chunkText(text, textLimit)

\* (mutant) the caption is repeated on every media item.
mediaSendsCaptionAll(payload) ==
    [i \in DOMAIN payload.mediaUrls |->
        [text |-> payload.text, mediaUrl |-> payload.mediaUrls[i]]]

\* The media loop: one send per media URL, the caption on the first.
mediaSends(payload) ==
    [i \in DOMAIN payload.mediaUrls |->
        [text |-> IF i = 1 THEN payload.text ELSE <<>>,
         mediaUrl |-> payload.mediaUrls[i]]]

\* The sends the body of the for loop makes for one payload, in order.
payloadSends(payload) ==
    IF Len(payload.mediaUrls) = 0
    THEN LET chunks == textChunks(payload.text)
         IN  [i \in DOMAIN chunks |-> [text |-> chunks[i]]]
    ELSE mediaSends(payload)

currentSends(d) ==
    IF d.payloadIdx \in DOMAIN normalizedPayloads
    THEN payloadSends(normalizedPayloads[d.payloadIdx])
    ELSE <<>>

DlvState ==
    [pc |-> pc, payloadIdx |-> payloadIdx, itemIdx |-> itemIdx,
     inflight |-> inflight, results |-> results, sendLog |-> sendLog,
     succeeded |-> succeeded, resultOwner |-> resultOwner,
     failedAt |-> failedAt, callbacks |-> callbacks, returned |-> returned]

DlvSet(d) ==
    /\ pc' = d.pc
    /\ payloadIdx' = d.payloadIdx
    /\ itemIdx' = d.itemIdx
    /\ inflight' = d.inflight
    /\ results' = d.results
    /\ sendLog' = d.sendLog
    /\ succeeded' = d.succeeded
    /\ resultOwner' = d.resultOwner
    /\ failedAt' = d.failedAt
    /\ callbacks' = d.callbacks
    /\ returned' = d.returned

signalMaxBytes ==
    IF provider = "signal" THEN resolveSignalMaxBytes(cfg) ELSE <<>>

imessageMaxBytes ==
    IF provider = "imessage" THEN resolveIMessageMaxBytes(cfg) ELSE <<>>

\* The byte ceiling among the options of a send call: a record with the
\* field maxBytes, or the empty record when the option is undefined or is
\* not passed.
sendOptions ==
    IF provider = "signal" THEN signalMaxBytes
    ELSE IF provider = "imessage" THEN imessageMaxBytes
    ELSE <<>>

sendCall(d, k) ==
    [payload |-> d.payloadIdx, item |-> k, call |-> currentSends(d)[k],
     opts |-> sendOptions]

\* deps.send...(to, text, opts) for item itemIdx of the current payload; the
\* function then waits for the promise of that send.
issueSendNoAwait(d) ==
    LET ks == {k \in {d.itemIdx, d.itemIdx + 1} : k \in DOMAIN currentSends(d)}
        calls == [i \in 1..Cardinality(ks) |-> sendCall(d, d.itemIdx + i - 1)]
    IN  [d EXCEPT !.pc = "awaitSend",
                  !.inflight = @ \o calls,
                  !.sendLog = @ \o calls]

issueSend(d) ==
    [d EXCEPT !.pc = "awaitSend",
              !.inflight = Append(@, sendCall(d, d.itemIdx)),
              !.sendLog = Append(@, sendCall(d, d.itemIdx))]

\* The for loop from the top of the iteration for payload payloadIdx up to
\* the first await, or to the return.
RECURSIVE runLoop(_)
runLoop(d) ==
    IF d.payloadIdx > Len(normalizedPayloads)
    THEN [d EXCEPT !.pc = "done",
                   !.returned = [kind |-> "resolved", value |-> d.results]]
    ELSE LET d1 == [d EXCEPT !.callbacks =
                        Append(@, [cb |-> "onPayload",
                                   payload |-> normalizedPayloads[d.payloadIdx]]),
                             !.itemIdx = 1]
         IN  IF currentSends(d1) = <<>>
             THEN runLoop([d1 EXCEPT !.payloadIdx = @ + 1])
             ELSE issueSend(d1)

\* results.push({ provider, ...res })
tagResult(p, res) == [provider |-> p, messageId |-> res.messageId]

RemoveAt(s, i) == SubSeq(s, 1, i - 1) \o SubSeq(s, i + 1, Len(s))

\* The continuation of a send that resolved with res.
onSendResolvedUnshift(d, call, res) ==
    LET d1 == [d EXCEPT !.results = <<tagResult(provider, res)>> \o @,
                        !.succeeded = Append(@, res),
                        !.resultOwner = <<call.payload>> \o @]
    IN  IF d1.itemIdx < Len(currentSends(d1))
        THEN issueSend([d1 EXCEPT !.itemIdx = @ + 1])
        ELSE runLoop([d1 EXCEPT !.payloadIdx = @ + 1])

onSendResolved(d, call, res) ==
    LET d1 == [d EXCEPT !.results = Append(@, tagResult(provider, res)),
                        !.succeeded = Append(@, res),
                        !.resultOwner = Append(@, call.payload)]
    IN  IF d1.itemIdx < Len(currentSends(d1))
        THEN issueSend([d1 EXCEPT !.itemIdx = @ + 1])
        ELSE runLoop([d1 EXCEPT !.payloadIdx = @ + 1])

\* The catch clause of the for loop, for a send that rejected with err.
onSendRejectedRollback(d, call, err) ==
    IF ~bestEffort
    THEN [d EXCEPT !.pc = "rejected",
                   !.returned = [kind |-> "rejected", error |-> err]]
    ELSE LET keepIdx == {i \in DOMAIN d.results :
                            d.resultOwner[i] # d.payloadIdx}
             n == Cardinality(keepIdx)
         IN  runLoop([d EXCEPT
                !.callbacks = Append(@, [cb |-> "onError", error |-> err,
                                payload |-> normalizedPayloads[d.payloadIdx]]),
                !.failedAt = @ \cup {<<d.payloadIdx, call.item>>},
                !.results = SubSeq(@, 1, n),
                !.resultOwner = SubSeq(@, 1, n),
                !.payloadIdx = @ + 1])

\* (mutant) best-effort stops at the first failure and returns.
onSendRejectedBreak(d, call, err) ==
    IF ~bestEffort
    THEN [d EXCEPT !.pc = "rejected",
                   !.returned = [kind |-> "rejected", error |-> err]]
    ELSE [d EXCEPT
            !.callbacks = Append(@, [cb |-> "onError", error |-> err,
                                payload |-> normalizedPayloads[d.payloadIdx]]),
            !.failedAt = @ \cup {<<d.payloadIdx, call.item>>},
            !.pc = "done",
            !.returned = [kind |-> "resolved", value |-> d.results]]

\* (mutant) the failure is swallowed whatever bestEffort is.
onSendRejectedSwallow(d, call, err) ==
    runLoop([d EXCEPT
        !.callbacks = Append(@, [cb |-> "onError", error |-> err,
                            payload |-> normalizedPayloads[d.payloadIdx]]),
        !.failedAt = @ \cup {<<d.payloadIdx, call.item>>},
        !.payloadIdx = @ + 1])

onSendRejected(d, call, err) ==
    IF ~bestEffort
    THEN [d EXCEPT !.pc = "rejected",
                   !.returned = [kind |-> "rejected", error |-> err]]
    ELSE runLoop([d EXCEPT
            !.callbacks = Append(@, [cb |-> "onError", error |-> err,
                                payload |-> normalizedPayloads[d.payloadIdx]]),
            !.failedAt = @ \cup {<<d.payloadIdx, call.item>>},
            !.payloadIdx = @ + 1])

DlvInit ==
    /\ provider \in Providers
    /\ bestEffort \in BOOLEAN
    /\ payloads \in PayloadLists
    /\ textLimit \in IF resolveChunker(provider) = "null"
                     THEN {NoTextLimit} ELSE 1..MaxTextLimit
    /\ cfg \in IF Len(payloads) <= 1 THEN DeliverConfigs ELSE {<<>>}
    /\ lastSend = [kind |-> "none"]
    /\ pc = "start"
    /\ payloadIdx = 1
    /\ itemIdx = 1
    /\ inflight = <<>>
    /\ results = <<>>
    /\ sendLog = <<>>
    /\ succeeded = <<>>
    /\ resultOwner = <<>>
    /\ failedAt = {}
    /\ callbacks = <<>>
    /\ returned = [kind |-> "pending"]

\* The call of deliverOutboundPayloads up to its first await.
Deliver ==
    /\ pc = "start"
    /\ DlvSet(runLoop(DlvState))
    /\ UNCHANGED <<provider, bestEffort, textLimit, payloads, cfg, lastSend>>
    /\ UNCHANGED <<gwVars, rsvVars>>

SendResolves ==
    /\ pc = "awaitSend"
    /\ \E i \in DOMAIN inflight, res \in SendResults :
        /\ DlvSet(onSendResolved([DlvState EXCEPT !.inflight = RemoveAt(@, i)],
                                 inflight[i], res))
        /\ lastSend' = [kind |-> "resolved", result |-> res]
    /\ UNCHANGED <<provider, bestEffort, textLimit, payloads, cfg>>
    /\ UNCHANGED <<gwVars, rsvVars>>

SendRejects ==
    /\ pc = "awaitSend"
    /\ \E i \in DOMAIN inflight, err \in SendErrors :
        /\ DlvSet(onSendRejected([DlvState EXCEPT !.inflight = RemoveAt(@, i)],
                                 inflight[i], err))
        /\ lastSend' = [kind |-> "rejected", error |-> err]
    /\ UNCHANGED <<provider, bestEffort, textLimit, payloads, cfg>>
    /\ UNCHANGED <<gwVars, rsvVars>>

DlvNext == Deliver \/ SendResolves \/ SendRejects

----------------------------------------------------------------------------
(* callGateway: resolution of the connection target                        *)

\* Records with optional fields: every subset of the fields of choices is
\* present, each present field with one of its values.
OptFields(choices) ==
    UNION {{f \in [K -> UNION {choices[k] : k \in K}] :
                \A k \in K : f[k] \in choices[k]} :
           K \in SUBSET DOMAIN choices}

Merge(f, g) ==
    [k \in DOMAIN f \cup DOMAIN g |-> IF k \in DOMAIN g THEN g[k] ELSE f[k]]

Blank == <<" ">>

OptsInputs ==
    OptFields([url |-> {Blank, <<" ", "ws://cli", " ">>},
               token |-> {Blank, <<" ", "cli-token">>},
               password |-> {Blank, <<"cli-password", " ">>}])

RemoteInputs ==
    OptFields([url |-> {Blank, <<"wss://remote", " ">>},
               token |-> {<<" ", "remote-token">>},
               password |-> {<<"remote-password">>}])

AuthInputs ==
    OptFields([token |-> {<<"auth-token", " ">>},
               password |-> {<<"auth-password">>}])

EnvInputs ==
    OptFields([CLAWDBOT_GATEWAY_TOKEN |-> {Blank, <<" ", "env-token", " ">>},
               CLAWDBOT_GATEWAY_PASSWORD |-> {<<"env-password">>}])

GatewayModeInputs ==
    OptFields([mode |-> {"remote"}, bind |-> {"loopback", "tailnet", "auto"}])

TailnetInputs == OptFields([tailnetIPv4 |-> {"100.64.0.7"}])

LocalPort == "18789"

ResolveInputs ==
    {[opts |-> o,
      gateway |-> Merge(m, [remote |-> r, auth |-> a]),
      env |-> e,
      tailnet |-> t,
      localPort |-> LocalPort] :
        o \in OptsInputs, m \in GatewayModeInputs, r \in RemoteInputs,
        a \in AuthInputs, e \in EnvInputs, t \in TailnetInputs}

\* typeof x === "string" && x.trim().length > 0 ? x.trim() : undefined,
\* and x?.trim(): the empty string stands for every falsy result.
TrimmedOrNone(rec, field) ==
    IF field \in DOMAIN rec THEN Trim(rec[field]) ELSE <<>>

\* a || b
OrElse(a, b) == IF a # <<>> THEN a ELSE b

isRemoteMode(in) ==
    "mode" \in DOMAIN in.gateway /\ in.gateway.mode = "remote"

\* const remote = isRemoteMode ? config.gateway?.remote : undefined
remoteOf(in) == IF isRemoteMode(in) THEN in.gateway.remote ELSE <<>>

bindModeOf(in) ==
    IF "bind" \in DOMAIN in.gateway THEN in.gateway.bind ELSE "loopback"

hasTailnet(in) == "tailnetIPv4" \in DOMAIN in.tailnet

preferTailnet(in) ==
    bindModeOf(in) = "tailnet" \/ (bindModeOf(in) = "auto" /\ hasTailnet(in))

\* (mutant) the tailnet address is used whenever there is one.
localUrlAnyBind(in) ==
    IF hasTailnet(in)
    THEN <<"ws://", in.tailnet.tailnetIPv4, ":", in.localPort>>
    ELSE <<"ws://", "127.0.0.1", ":", in.localPort>>

localUrl(in) ==
    IF preferTailnet(in) /\ hasTailnet(in)
    THEN <<"ws://", in.tailnet.tailnetIPv4, ":", in.localPort>>
    ELSE <<"ws://", "127.0.0.1", ":", in.localPort>>

urlOverride(in) == TrimmedOrNone(in.opts, "url")

remoteUrl(in) == TrimmedOrNone(remoteOf(in), "url")

resolveUrl(in) == OrElse(urlOverride(in), OrElse(remoteUrl(in), localUrl(in)))

\* (mutant) the environment token is consulted first.
resolveTokenEnvFirst(in) ==
    OrElse(TrimmedOrNone(in.env, "CLAWDBOT_GATEWAY_TOKEN"),
           OrElse(TrimmedOrNone(in.opts, "token"),
                  IF isRemoteMode(in)
                  THEN TrimmedOrNone(remoteOf(in), "token")
                  ELSE TrimmedOrNone(in.gateway.auth, "token")))

resolveToken(in) ==
    OrElse(TrimmedOrNone(in.opts, "token"),
           IF isRemoteMode(in)
           THEN TrimmedOrNone(remoteOf(in), "token")
           ELSE OrElse(TrimmedOrNone(in.env, "CLAWDBOT_GATEWAY_TOKEN"),
                       TrimmedOrNone(in.gateway.auth, "token")))

\* (mutant) the environment password is consulted first.
resolvePasswordEnvFirst(in) ==
    OrElse(TrimmedOrNone(in.env, "CLAWDBOT_GATEWAY_PASSWORD"),
           OrElse(TrimmedOrNone(in.opts, "password"),
                  IF isRemoteMode(in)
                  THEN TrimmedOrNone(remoteOf(in), "password")
                  ELSE TrimmedOrNone(in.gateway.auth, "password")))

resolvePassword(in) ==
    OrElse(TrimmedOrNone(in.opts, "password"),
           OrElse(TrimmedOrNone(in.env, "CLAWDBOT_GATEWAY_PASSWORD"),
                  IF isRemoteMode(in)
                  THEN TrimmedOrNone(remoteOf(in), "password")
                  ELSE TrimmedOrNone(in.gateway.auth, "password")))

urlSource(in) ==
    IF urlOverride(in) # <<>> THEN <<"cli --url">>
    ELSE IF remoteUrl(in) # <<>> THEN <<"config gateway.remote.url">>
    ELSE IF preferTailnet(in) /\ hasTailnet(in)
    THEN <<"local tailnet ", in.tailnet.tailnetIPv4>>
    ELSE <<"local loopback">>

\* An optional property: absent when the value is undefined.
Optional(field, value) ==
    IF value = <<>> THEN <<>> ELSE [k \in {field} |-> value]

\* The arguments of new GatewayClient({ url, token, password, ... }) and the
\* parts of connectionDetails.
resolveTarget(in) ==
    Merge(Merge([state |-> "resolved",
                 url |-> resolveUrl(in),
                 urlSource |-> urlSource(in),
                 bindDetail |-> urlOverride(in) = <<>> /\ remoteUrl(in) = <<>>,
                 remoteFallbackNote |->
                    isRemoteMode(in) /\ urlOverride(in) = <<>>
                        /\ remoteUrl(in) = <<>>],
                Optional("token", resolveToken(in))),
          Optional("password", resolvePassword(in)))

RsvInit ==
    /\ resolveIn \in ResolveInputs
    /\ target = [state |-> "unresolved"]

\* callGateway up to the construction of the client.
ResolveTarget ==
    /\ target.state = "unresolved"
    /\ target' = resolveTarget(resolveIn)
    /\ UNCHANGED resolveIn
    /\ UNCHANGED <<gwVars, dlvVars>>

RsvNext == ResolveTarget

----------------------------------------------------------------------------
(* Specifications: one call of each operation.                             *)

\* No delivery in progress.
DlvParked ==
    /\ provider = "discord"
    /\ bestEffort = FALSE
    /\ textLimit = NoTextLimit
    /\ payloads = <<>>
    /\ cfg = <<>>
    /\ lastSend = [kind |-> "none"]
    /\ pc = "idle"
    /\ payloadIdx = 1
    /\ itemIdx = 1
    /\ inflight = <<>>
    /\ results = <<>>
    /\ sendLog = <<>>
    /\ succeeded = <<>>
    /\ resultOwner = <<>>
    /\ failedAt = {}
    /\ callbacks = <<>>
    /\ returned = [kind |-> "pending"]

\* No gateway call in progress.
GwParked ==
    /\ timeoutMs = DefaultTimeoutMs
    /\ settled = FALSE
    /\ ignoreClose = FALSE
    /\ timer = "none"
    /\ outcome = [kind |-> "pending"]
    /\ gwLog = <<>>
    /\ helloAcked = TRUE
    /\ request = "none"
    /\ closeEvents = MaxCloseEvents
    /\ lastEvent = [kind |-> "none"]

\* No target resolution in progress.
RsvParked ==
    /\ resolveIn = <<>>
    /\ target = [state |-> "none"]

GatewayInit == GwInit /\ DlvParked /\ RsvParked
SpecGateway == GatewayInit /\ [][GwNext]_vars

\* setTimeout: an armed timer that is not cleared fires.
LiveGateway == GatewayInit /\ [][GwNext]_vars /\ WF_vars(TimerFires)

DeliverInit == DlvInit /\ GwParked /\ RsvParked
SpecDeliver == DeliverInit /\ [][DlvNext]_vars

ResolveInit == RsvInit /\ GwParked /\ DlvParked
SpecResolve == ResolveInit /\ [][RsvNext]_vars

----------------------------------------------------------------------------
(* Properties of callGateway                                               *)

SettleCalls(log) == LogOps(log, "resolve") \cup LogOps(log, "reject")

IsRequestResolution ==
    request = "outstanding" /\ request' = "completed"
        /\ lastEvent'.kind = "resolved"

IsRequestFailure ==
    request = "outstanding" /\ request' = "completed"
        /\ lastEvent'.kind = "rejected"

IsCloseEvent == closeEvents' = closeEvents + 1 /\ lastEvent'.kind = "close"

IsTimerExpiry == timer = "armed" /\ timer' = "fired"

\* C1: a call settles at most once. resolve / reject is called at most once
\* over the whole call, and once the call is settled no later event changes
\* the outcome, unsets the flag or calls resolve / reject again.
C1_SettlesAtMostOnce ==
    [][/\ Cardinality(SettleCalls(gwLog')) <= 1
       /\ settled =>
            /\ settled'
            /\ outcome' = outcome
            /\ SettleCalls(gwLog') = SettleCalls(gwLog)
       /\ settled' <=> outcome'.kind # "pending"]_vars

\* C1 witness: the timeout settled the call and the request completed later.
C1_Witness ==
    /\ outcome.kind = "rejected"
    /\ outcome.error.type = "timeout"
    /\ request = "completed"

\* C2: when the request resolves while the call is unsettled (no timeout and
\* no close before it) the call resolves with the result of the request, and
\* every close event delivered after that success is ignored: it changes
\* neither the outcome nor anything else of the call.
C2_SuccessThenCloseIgnored ==
    [][/\ (IsRequestResolution /\ timer = "armed" /\ closeEvents = 0) =>
            outcome' = [kind |-> "resolved", value |-> lastEvent'.value]
       /\ (IsCloseEvent /\ outcome.kind = "resolved") =>
            UNCHANGED <<settled, ignoreClose, timer, outcome, gwLog>>]_vars

\* C2 witness: the call resolved and close events were delivered afterwards.
C2_Witness ==
    /\ outcome.kind = "resolved"
    /\ closeEvents >= 1

\* C3: every call eventually settles; a timer that expires on an unsettled
\* call settles it with the timeout error, and a settled call carries either
\* a result of the request or an error.
C3_EventuallySettles ==
    /\ <>settled
    /\ [][IsTimerExpiry =>
            /\ settled'
            /\ outcome' = [kind |-> "rejected",
                            error |-> [type |-> "timeout",
                                       timeoutMs |-> timeoutMs]]]_vars
    /\ [](settled =>
            \/ outcome.kind = "resolved" /\ outcome.value \in RequestResults
            \/ outcome.kind = "rejected" /\ outcome.error # Undefined)

\* C3 witness: the primitive did nothing and the timeout settled the call.
C3_Witness ==
    /\ settled
    /\ ~helloAcked /\ closeEvents = 0 /\ request = "none"
    /\ outcome.kind = "rejected"
    /\ outcome.error.type = "timeout"

\* C4: a settled call has stopped its connection, in the settlement step:
\* every resolve / reject is next to a client.stop() of the same handler.
C4_SettledImpliesStopped ==
    settled =>
        /\ clientStopped
        /\ \A i \in SettleCalls(gwLog) :
            \/ i > 1 /\ gwLog[i - 1].op = "client.stop"
            \/ i < Len(gwLog) /\ gwLog[i + 1].op = "client.stop"

\* C4 witness: a call settled by an unexpected close.
C4_Witness ==
    /\ settled
    /\ outcome.kind = "rejected"
    /\ outcome.error.type = "closed"
    /\ clientStopped

\* C5: a close event on a call that is not settled and has no intentional
\* close marked settles the call with an error carrying the close code and
\* the (trimmed) close reason; it does not resolve and does not stay pending.
C5_UnexpectedCloseRejects ==
    [][(IsCloseEvent /\ ~settled /\ ~ignoreClose) =>
        /\ settled'
        /\ outcome'.kind = "rejected"
        /\ outcome'.error.type = "closed"
        /\ outcome'.error.code = lastEvent'.code
        /\ outcome'.error.reasonText =
                IF Trim(lastEvent'.reason) = <<>> THEN NoCloseReason
                ELSE Trim(lastEvent'.reason)]_vars

\* C5 witness: the connection closed with a reason while the request was
\* outstanding.
C5_Witness ==
    /\ outcome.kind = "rejected"
    /\ outcome.error.type = "closed"
    /\ outcome.error.reasonText = <<"b", "y", "e">>
    /\ request = "outstanding"

\* C6: a request failure on an unsettled call stops the connection and then
\* rejects with exactly the error of the request, in that order.
C6_RequestFailureRejects ==
    [][(IsRequestFailure /\ ~settled) =>
        /\ outcome' = [kind |-> "rejected", error |-> lastEvent'.error]
        /\ Len(gwLog') = Len(gwLog) + 2
        /\ gwLog'[Len(gwLog) + 1].op = "client.stop"
        /\ gwLog'[Len(gwLog) + 2] =
                [op |-> "reject", error |-> lastEvent'.error]]_vars

\* C6 witness: the call was rejected with the error of the request.
C6_Witness ==
    /\ outcome.kind = "rejected"
    /\ outcome.error \in RequestErrors

\* C7: one request per handshake acknowledgement, at most one request in
\* total, and a request is issued only by the handler of an acknowledgement.
C7_OneRequest ==
    /\ Cardinality(LogOps(gwLog, "client.request"))
            = Cardinality(LogOps(gwLog, "helloOk"))
    /\ Cardinality(LogOps(gwLog, "client.request")) <= 1
    /\ \A i \in LogOps(gwLog, "client.request") :
            i > 1 /\ gwLog[i - 1].op = "helloOk"
    /\ request = "outstanding" => LogOps(gwLog, "client.request") # {}

\* C7 witness: the request was issued and is outstanding.
C7_Witness ==
    /\ request = "outstanding"
    /\ LogOps(gwLog, "client.request") # {}

----------------------------------------------------------------------------
(* Properties of deliverOutboundPayloads                                   *)

\* C8: at most one send is in flight, and the send calls follow the order of
\* the normalized payloads and, within a payload, of its chunks or media
\* URLs: each call is the next item of the same payload or the first item of
\* a later payload, and carries that item.
C8_SequentialSends ==
    /\ Len(inflight) <= 1
    /\ \A i \in DOMAIN sendLog :
        LET e == sendLog[i]
        IN  /\ e.payload \in DOMAIN normalizedPayloads
            /\ e.item \in DOMAIN payloadSends(normalizedPayloads[e.payload])
            /\ e.call = payloadSends(normalizedPayloads[e.payload])[e.item]
            /\ i = 1 => e.item = 1
            /\ i > 1 =>
                \/ /\ e.payload = sendLog[i - 1].payload
                   /\ e.item = sendLog[i - 1].item + 1
                \/ /\ e.payload > sendLog[i - 1].payload
                   /\ e.item = 1
    /\ Len(sendLog) = Len(succeeded) + Cardinality(failedAt) + Len(inflight)
            \/ pc = "rejected"

\* C8 witness: a second chunk of one payload and a send of a second payload.
C8_Witness ==
    /\ \E i \in DOMAIN sendLog :
        sendLog[i].item = 2 /\ "mediaUrl" \notin DOMAIN sendLog[i].call
    /\ \E i \in DOMAIN sendLog : sendLog[i].payload = 2

\* C9: results holds one entry per send that succeeded so far, tagged with
\* the provider of the call, in the order of success; the call returns it.
C9_ResultsAreSuccessfulSends ==
    /\ Len(results) = Len(succeeded)
    /\ \A i \in DOMAIN results :
        /\ results[i].provider = provider
        /\ results[i].messageId = succeeded[i].messageId
    /\ pc = "done" => returned = [kind |-> "resolved", value |-> results]

\* C9 witness: the call returned two results with different message ids.
C9_Witness ==
    /\ pc = "done"
    /\ Len(results) >= 2
    /\ results[1].messageId # results[2].messageId

ReturnedFrom(p) ==
    {i \in DOMAIN returned.value : resultOwner[i] = p}

\* C10 as stated: under best-effort a payload whose processing failed has no
\* entry in the returned list.
C10_FailedPayloadContributesNothing ==
    (pc = "done" /\ bestEffort) =>
        \A f \in failedAt : ReturnedFrom(f[1]) = {}

\* C10 amended: under best-effort a payload whose processing failed
\* contributes exactly the entries of its sends that succeeded before the
\* failing one (none when its first send fails).
C10_FailedPayloadKeepsEarlierSends ==
    (pc = "done" /\ bestEffort) =>
        \A f \in failedAt : Cardinality(ReturnedFrom(f[1])) = f[2] - 1

\* C10 witness: a payload failed on its second send and the call returned.
C10_Witness ==
    /\ pc = "done"
    /\ bestEffort
    /\ \E f \in failedAt : f[2] = 2

RejectedSends == Len(sendLog) - Len(succeeded) - Len(inflight)

OnErrorCalls == {i \in DOMAIN callbacks : callbacks[i].cb = "onError"}

OnPayloadCalls == {i \in DOMAIN callbacks : callbacks[i].cb = "onPayload"}

SendsOf(p) == {i \in DOMAIN sendLog : sendLog[i].payload = p}

\* C11: with best-effort the call never rejects; every rejected send causes
\* one onError invocation that carries the normalized payload of that send;
\* on return every normalized payload was announced and attempted, in order,
\* and the returned list is the list of the successful sends in order.
C11_BestEffortContinues ==
    bestEffort =>
        /\ pc # "rejected"
        /\ returned.kind # "rejected"
        /\ Cardinality(OnErrorCalls) = RejectedSends
        /\ Cardinality(OnErrorCalls) = Cardinality({f[1] : f \in failedAt})
        /\ \A f \in failedAt :
            Cardinality({i \in OnErrorCalls :
                callbacks[i].payload = normalizedPayloads[f[1]]
                /\ Cardinality({j \in OnPayloadCalls : j < i}) = f[1]}) = 1
        /\ pc = "done" =>
            /\ Cardinality(OnPayloadCalls) = Len(normalizedPayloads)
            /\ \A p \in DOMAIN normalizedPayloads : SendsOf(p) # {}
            /\ Len(returned.value) = Len(succeeded)
            /\ \A i \in DOMAIN succeeded :
                returned.value[i].messageId = succeeded[i].messageId

\* C11 witness: the first payload failed, a later one was delivered and the
\* call returned.
C11_Witness ==
    /\ bestEffort
    /\ pc = "done"
    /\ \E f \in failedAt : f[1] = 1
    /\ \E i \in DOMAIN resultOwner : resultOwner[i] = 2

IsSendFailure == RejectedSends' = RejectedSends + 1

\* C12: without best-effort the first rejected send rejects the call with
\* the error of that send at once: the step makes no send and no callback,
\* returns no list, and nothing happens after it.
C12_FailFast ==
    [][/\ (~bestEffort /\ IsSendFailure) =>
            /\ pc' = "rejected"
            /\ returned' = [kind |-> "rejected", error |-> lastSend'.error]
            /\ UNCHANGED <<sendLog, callbacks, results>>
            /\ inflight' = <<>>
       /\ pc = "rejected" => UNCHANGED vars]_vars

\* C12 witness: the call rejected after an earlier send had succeeded.
C12_Witness ==
    /\ ~bestEffort
    /\ pc = "rejected"
    /\ Len(succeeded) >= 1
    /\ returned.kind = "rejected"

\* C13: the sends of a payload with media carry its media URLs in list
\* order, the first one with the text of the payload as caption and every
\* later one with empty text; a payload that was processed without a
\* failure got exactly one send per media URL.
C13_CaptionOnFirstMedia ==
    /\ \A i \in DOMAIN sendLog :
        LET e == sendLog[i]
            payload == normalizedPayloads[e.payload]
        IN  Len(payload.mediaUrls) >= 1 =>
                /\ e.item <= Len(payload.mediaUrls)
                /\ e.call.mediaUrl = payload.mediaUrls[e.item]
                /\ e.item = 1 => e.call.text = payload.text
                /\ e.item > 1 => e.call.text = <<>>
                /\ Cardinality({j \in SendsOf(e.payload) :
                        sendLog[j].item = e.item}) = 1
    /\ pc = "done" =>
        \A p \in DOMAIN normalizedPayloads :
            (Len(normalizedPayloads[p].mediaUrls) >= 1
                /\ p \notin {f[1] : f \in failedAt}) =>
            Cardinality(SendsOf(p)) = Len(normalizedPayloads[p].mediaUrls)

\* C13 witness: both media items of a captioned payload were sent.
C13_Witness ==
    /\ pc = "done"
    /\ \E i \in DOMAIN sendLog :
        /\ sendLog[i].item = 2
        /\ "mediaUrl" \in DOMAIN sendLog[i].call
        /\ normalizedPayloads[sendLog[i].payload].text # <<>>

\* Blank text: empty or whitespace only.
IsBlank(text) == Trim(text) = <<>>

\* The normalization as the claim states it.
NormalizedAsClaimed(raw) ==
    LET textOf(r) == IF "text" \in DOMAIN r THEN r.text ELSE <<>>
        mediaOf(r) == IF "mediaUrls" \in DOMAIN r THEN r.mediaUrls
                      ELSE IF "mediaUrl" \in DOMAIN r /\ r.mediaUrl # ""
                      THEN <<r.mediaUrl>>
                      ELSE <<>>
        mapped == [i \in DOMAIN raw |->
                    [text |-> textOf(raw[i]), mediaUrls |-> mediaOf(raw[i])]]
        kept(n) == ~(IsBlank(n.text) /\ n.mediaUrls = <<>>)
    IN  SelectSeq(mapped, kept)

\* C14: normalization removes exactly the entries whose text is blank
\* (absent, empty or whitespace only) and whose media list is empty, keeps
\* the order of the others, and lifts mediaUrl into a one-element list only
\* when no mediaUrls list is given.
C14_NormalizationDropsBlank ==
    normalizedPayloads = NormalizedAsClaimed(payloads)

\* C18: every send for signal or imessage carries maxBytes equal to the
\* provider's mediaMaxMb times 1,048,576, or the agent-wide mediaMaxMb times
\* 1,048,576 when the provider has none, and no maxBytes when both are
\* absent; the sends for the other providers carry no byte ceiling.
C18_MediaByteCeiling ==
    \A i \in DOMAIN sendLog :
        LET o == sendLog[i].opts
        IN  IF provider \in {"signal", "imessage"}
            THEN IF provider \in DOMAIN cfg
                 THEN /\ "maxBytes" \in DOMAIN o
                      /\ o.maxBytes = cfg[provider].mediaMaxMb * 1048576
                 ELSE IF "agent" \in DOMAIN cfg
                 THEN /\ "maxBytes" \in DOMAIN o
                      /\ o.maxBytes = cfg.agent.mediaMaxMb * 1048576
                 ELSE "maxBytes" \notin DOMAIN o
            ELSE "maxBytes" \notin DOMAIN o

\* C18 witness: an imessage send with the agent-wide ceiling, the signal
\* section being configured and the imessage section not.
C18_Witness ==
    /\ provider = "imessage"
    /\ DOMAIN cfg = {"signal", "agent"}
    /\ \E i \in DOMAIN sendLog :
        /\ "maxBytes" \in DOMAIN sendLog[i].opts
        /\ sendLog[i].opts.maxBytes = 3145728

----------------------------------------------------------------------------
(* Further properties of callGateway                                       *)

\* C19: settled implies ignoreClose; client.stop() is only called with
\* ignoreClose already set; and no close error is ever reported after a
\* client.stop() of an earlier handler.
C19_FlagsSetWithSettlement ==
    /\ settled => ignoreClose
    /\ \A i \in LogOps(gwLog, "client.stop") : gwLog[i].ignoreClose
    /\ \A i \in LogOps(gwLog, "reject") :
        gwLog[i].error.type = "closed" =>
            \A j \in LogOps(gwLog, "client.stop") : j >= i - 1

\* C19 witness: the timeout stopped the connection and close events were
\* delivered afterwards.
C19_Witness ==
    /\ settled
    /\ outcome.kind = "rejected"
    /\ outcome.error.type = "timeout"
    /\ closeEvents >= 1
    /\ clientStopped

\* C20: no request is issued on the connection after the call has settled.
C20_NoRequestAfterSettlement ==
    \A i \in LogOps(gwLog, "client.request") :
        \A j \in SettleCalls(gwLog) : i < j

----------------------------------------------------------------------------
(* Properties of the target resolution                                     *)

Resolved == target.state = "resolved"

\* The value of an input field, trimmed; empty when the field is absent.
Given(rec, field) == IF field \in DOMAIN rec THEN Trim(rec[field]) ELSE <<>>

\* The value handed to the connection; empty when it is undefined.
Handed(field) == IF field \in DOMAIN target THEN target[field] ELSE <<>>

RemoteMode ==
    "mode" \in DOMAIN resolveIn.gateway /\ resolveIn.gateway.mode = "remote"

\* C15: a non-blank explicit url, token or password argument is the value
\* (trimmed) handed to the connection, whatever the configuration and the
\* environment hold.
C15_ExplicitArgumentWins ==
    Resolved =>
        \A field \in {"url", "token", "password"} :
            Given(resolveIn.opts, field) # <<>> =>
                Handed(field) = Given(resolveIn.opts, field)

\* C15 witness: explicit token and password in remote mode, with remote,
\* environment and local values all set.
C15_Witness ==
    /\ Resolved
    /\ RemoteMode
    /\ Given(resolveIn.opts, "token") # <<>>
    /\ Given(resolveIn.opts, "password") # <<>>
    /\ Given(resolveIn.opts, "url") # <<>>
    /\ Given(resolveIn.env, "CLAWDBOT_GATEWAY_TOKEN") # <<>>
    /\ Given(resolveIn.env, "CLAWDBOT_GATEWAY_PASSWORD") # <<>>
    /\ Given(resolveIn.gateway.remote, "token") # <<>>
    /\ Given(resolveIn.gateway.remote, "url") # <<>>
    /\ Given(resolveIn.gateway.auth, "token") # <<>>
    /\ target.token = <<"cli-token">>
    /\ target.password = <<"cli-password">>
    /\ target.url = <<"ws://cli">>

FirstGiven(a, b) == IF a # <<>> THEN a ELSE b

\* C16 as stated: explicit token, else the remote token in remote mode,
\* else the environment token, else the local token, each used whenever all
\* the earlier ones are missing, in both modes.
C16_TokenLayeredChain ==
    Resolved =>
        Handed("token") =
            FirstGiven(Given(resolveIn.opts, "token"),
            FirstGiven(IF RemoteMode
                       THEN Given(resolveIn.gateway.remote, "token")
                       ELSE <<>>,
            FirstGiven(Given(resolveIn.env, "CLAWDBOT_GATEWAY_TOKEN"),
                       Given(resolveIn.gateway.auth, "token"))))

\* C16 amended: explicit token; else, in remote mode, the remote token and
\* nothing else (no token when it is missing); else, in local mode, the
\* environment token, else the local token.
C16_TokenChainByMode ==
    Resolved =>
        Handed("token") =
            IF Given(resolveIn.opts, "token") # <<>>
            THEN Given(resolveIn.opts, "token")
            ELSE IF RemoteMode
            THEN Given(resolveIn.gateway.remote, "token")
            ELSE IF Given(resolveIn.env, "CLAWDBOT_GATEWAY_TOKEN") # <<>>
            THEN Given(resolveIn.env, "CLAWDBOT_GATEWAY_TOKEN")
            ELSE Given(resolveIn.gateway.auth, "token")

\* C16 witness: remote mode without explicit and remote token; the
\* environment and the local configuration have one, the connection gets
\* none.
C16_Witness ==
    /\ Resolved
    /\ RemoteMode
    /\ Given(resolveIn.opts, "token") = <<>>
    /\ Given(resolveIn.gateway.remote, "token") = <<>>
    /\ Given(resolveIn.env, "CLAWDBOT_GATEWAY_TOKEN") # <<>>
    /\ Given(resolveIn.gateway.auth, "token") # <<>>
    /\ "token" \notin DOMAIN target

\* C17: the url is never empty; it is the explicit url, else the remote url
\* in remote mode, else the local url, whose host is the tailnet address
\* when the bind mode is tailnet or auto and there is a tailnet address,
\* and 127.0.0.1 otherwise, on the resolved port.
C17_UrlPrecedence ==
    Resolved =>
        /\ target.url # <<>>
        /\ target.url =
            IF Given(resolveIn.opts, "url") # <<>>
            THEN Given(resolveIn.opts, "url")
            ELSE IF RemoteMode /\ Given(resolveIn.gateway.remote, "url") # <<>>
            THEN Given(resolveIn.gateway.remote, "url")
            ELSE IF /\ "bind" \in DOMAIN resolveIn.gateway
                    /\ resolveIn.gateway.bind \in {"tailnet", "auto"}
                    /\ "tailnetIPv4" \in DOMAIN resolveIn.tailnet
            THEN <<"ws://", resolveIn.tailnet.tailnetIPv4, ":",
                   resolveIn.localPort>>
            ELSE <<"ws://", "127.0.0.1", ":", resolveIn.localPort>>

\* C17 witness: no explicit url, local mode with a remote url configured,
\* a tailnet address and the default bind mode: loopback is used.
C17_Witness ==
    /\ Resolved
    /\ ~RemoteMode
    /\ Given(resolveIn.opts, "url") = <<>>
    /\ Given(resolveIn.gateway.remote, "url") # <<>>
    /\ "tailnetIPv4" \in DOMAIN resolveIn.tailnet
    /\ "bind" \notin DOMAIN resolveIn.gateway
    /\ target.url = <<"ws://", "127.0.0.1", ":", "18789">>

====
